---- MODULE Spec2Model ----
(***************************************************************************)
(* Model of f5.Lb (src/src/lb.py): the constructor, the session properties *)
(* active_folder, recursive_query, transaction and transaction_timeout,    *)
(* the entity caches, and the decorators restore_session_values,           *)
(* recursivereader, writer and transaction.                                *)
(* The program is single threaded and every remote call                    *)
(* blocks, so one public call is one action; the remote calls it issues    *)
(* are recorded, in order, in log.                                         *)
(***************************************************************************)
EXTENDS Integers, Sequences, FiniteSets, TLC

VARIABLES remote,   \* state of the remote System.Session endpoint
          lb,       \* the cached fields of the Lb object
          log,      \* remote calls and body events of the last public call
          err,      \* exception delivered to the caller of the last call
          ret,      \* value returned to the caller of the last call
          op,       \* the last public call and its inputs
          entry     \* remote and lb as they were when the last call started,
                    \* and whether it repeats a setter call just completed

vars == <<remote, lb, log, err, ret, op, entry>>

---------------------------------------------------------------------------
(* Bounds *)

MaxBody    == 2     \* statements in a wrapped body
MaxChanges == 2     \* changes staged in the open transaction
MaxEntries == 2     \* entries held by the entity caches together

---------------------------------------------------------------------------
(* Python values *)

PyNone     == [t |-> "none", b |-> FALSE, i |-> 0, s |-> ""]
PyBool(b)  == [t |-> "bool", b |-> b, i |-> 0, s |-> ""]
PyInt(i)   == [t |-> "int", b |-> FALSE, i |-> i, s |-> ""]
PyStr(s)   == [t |-> "str", b |-> FALSE, i |-> 0, s |-> s]

PyNum(v)   == IF v.t = "bool" THEN (IF v.b THEN 1 ELSE 0) ELSE v.i

\* Python's ==: bool is a subclass of int, so True == 1 and False == 0.
PyEq(x, y) ==
    IF x.t \in {"bool", "int"} /\ y.t \in {"bool", "int"} THEN PyNum(x) = PyNum(y)
    ELSE IF x.t = "str" /\ y.t = "str" THEN x.s = y.s
    ELSE x.t = "none" /\ y.t = "none"

---------------------------------------------------------------------------
(* Exceptions *)

NoErr          == [type |-> "none", message |-> ""]
ServerError(m) == [type |-> "ServerError", message |-> m]
ValueError     == [type |-> "ValueError", message |-> "recursive_query must be one of True/False"]
BodyError      == [type |-> "BodyError", message |-> "raised by the wrapped function"]
AttributeError == [type |-> "AttributeError", message |-> "'Lb' object has no attribute"]
UnsupportedF5Version ==
    [type |-> "UnsupportedF5Version", message |-> "This class only supports BIG-IP v11"]

MsgAlreadyOpen == "Only one transaction can be open at any time"
MsgNoRollback  == "No transaction is open to roll back."
MsgNoFolder    == "folder not found"
MsgTransport   == "transport fault"

\* `marker in e.message`: the faults of the model carry the marker as their
\* whole message.
InMessage(marker, e) == e.message = marker

\* `marker in s` for two strings: marker is a substring of s
In(marker, s) ==
    \E i \in 1..(Len(s) - Len(marker) + 1) : SubSeq(s, i, i + Len(marker) - 1) = marker

---------------------------------------------------------------------------
(* A call in progress is a record m: the remote state, the fields of the   *)
(* Lb object, the exception in flight (err), the value last returned       *)
(* (ret), the log, the number n of remote calls issued, and the frames of  *)
(* the transaction wrappers being executed.  Every operator below takes    *)
(* the record in which the statement before it ended and gives the record  *)
(* in which it ends; when an exception is in flight it does nothing, which *)
(* is how the exception leaves the statements that follow the raise.       *)

Raised(m) == m.err.type # "none"

Return(m, value) == IF Raised(m) THEN m ELSE [m EXCEPT !.ret = value]

\* self._<field> = value, after the statement that ended in m
Assign(m, field, value) ==
    IF Raised(m) THEN m ELSE [m EXCEPT !.lb[field] = value, !.ret = PyNone]

---------------------------------------------------------------------------
(* The remote endpoint *)

ExistingFolders == {"/", "/Common", "/Part"}
Paths           == ExistingFolders \cup {"/Missing"}
Timeouts        == {5, 30}

\* One event of a public call: a remote call with its outcome, or a mark
\* of the wrapped body.  depth is the number of transaction wrappers the
\* event happened in; folder, rq, tx and staged are the remote state after
\* it; applied is the number of changes it made permanent on the appliance.
LogEntry(m, call, res, applied) ==
    [call |-> call, res |-> res, depth |-> Len(m.frames), applied |-> applied,
     folder |-> m.remote.folder, rq |-> m.remote.rq, tx |-> m.remote.tx,
     staged |-> m.remote.staged]

\* A remote call that completes.
Applied(m, call, value, applied) ==
    [m EXCEPT !.n = @ + 1, !.ret = value,
              !.log = Append(@, LogEntry(m, call, "ok", applied))]

Done(m, call, value) == Applied(m, call, value, 0)

\* A remote call that raises bigsuds.ServerError.
Fault(m, call, msg) ==
    [m EXCEPT !.n = @ + 1, !.err = ServerError(msg),
              !.log = Append(@, LogEntry(m, call, msg, 0))]

\* The faultAt-th remote call of a public call is hit by a transport fault.
Hit(m) == m.n + 1 = m.faultAt

\* System.SystemInfo.get_version: version is what the appliance reports
get_version(m, version) ==
    IF Raised(m) THEN m
    ELSE IF Hit(m) THEN Fault(m, "get_version", MsgTransport)
    ELSE Done(m, "get_version", PyStr(version))

get_active_folder(m) ==
    IF Raised(m) THEN m
    ELSE IF Hit(m) THEN Fault(m, "get_active_folder", MsgTransport)
    ELSE Done(m, "get_active_folder", PyStr(m.remote.folder))

set_active_folder(m, folder) ==
    IF Raised(m) THEN m
    ELSE IF Hit(m) THEN Fault(m, "set_active_folder", MsgTransport)
    ELSE IF folder \notin ExistingFolders THEN Fault(m, "set_active_folder", MsgNoFolder)
    ELSE Done([m EXCEPT !.remote.folder = folder], "set_active_folder", PyNone)

get_recursive_query_state(m) ==
    IF Raised(m) THEN m
    ELSE IF Hit(m) THEN Fault(m, "get_recursive_query_state", MsgTransport)
    ELSE Done(m, "get_recursive_query_state", PyStr(m.remote.rq))

set_recursive_query_state(m, state) ==
    IF Raised(m) THEN m
    ELSE IF Hit(m) THEN Fault(m, "set_recursive_query_state", MsgTransport)
    ELSE Done([m EXCEPT !.remote.rq = state], "set_recursive_query_state", PyNone)

get_transaction_timeout(m) ==
    IF Raised(m) THEN m
    ELSE IF Hit(m) THEN Fault(m, "get_transaction_timeout", MsgTransport)
    ELSE Done(m, "get_transaction_timeout", PyInt(m.remote.timeout))

set_transaction_timeout(m, value) ==
    IF Raised(m) THEN m
    ELSE IF Hit(m) THEN Fault(m, "set_transaction_timeout", MsgTransport)
    ELSE Done([m EXCEPT !.remote.timeout = value], "set_transaction_timeout", PyNone)

\* The appliance refuses a second transaction.
start_transaction(m) ==
    IF Raised(m) THEN m
    ELSE IF Hit(m) THEN Fault(m, "start_transaction", MsgTransport)
    ELSE IF m.remote.tx > 0 THEN Fault(m, "start_transaction", MsgAlreadyOpen)
    ELSE Done([m EXCEPT !.remote.tx = @ + 1], "start_transaction", PyNone)

\* The appliance refuses to roll back when no transaction is open.
rollback_transaction(m) ==
    IF Raised(m) THEN m
    ELSE IF Hit(m) THEN Fault(m, "rollback_transaction", MsgTransport)
    ELSE IF m.remote.tx = 0 THEN Fault(m, "rollback_transaction", MsgNoRollback)
    ELSE Done([m EXCEPT !.remote.tx = @ - 1, !.remote.staged = 0],
              "rollback_transaction", PyNone)

\* Lb._submit_transaction.  Submitting with no transaction open changes
\* nothing on the appliance.
submit_transaction(m) ==
    IF Raised(m) THEN m
    ELSE IF Hit(m) THEN Fault(m, "submit_transaction", MsgTransport)
    ELSE IF m.remote.tx = 0 THEN Done(m, "submit_transaction", PyNone)
    ELSE Applied([m EXCEPT !.remote.tx = @ - 1, !.remote.staged = 0],
                 "submit_transaction", PyNone, m.remote.staged)

\* A mutating call of an entity collaborator (create, modify): staged while
\* a transaction is open, applied at once otherwise.
remote_change(m) ==
    IF Raised(m) THEN m
    ELSE IF Hit(m) THEN Fault(m, "change", MsgTransport)
    ELSE IF m.remote.tx > 0
         THEN Done([m EXCEPT !.remote.staged = @ + 1], "change", PyNone)
         ELSE Applied(m, "change", PyNone, 1)

---------------------------------------------------------------------------
(* Properties of Lb *)

\* active_folder getter, the assignment of the value read
active_folder_cache(m) ==
    IF Raised(m) THEN m ELSE [m EXCEPT !.lb.active_folder = m.ret.s]

active_folder_get(m) == active_folder_cache(get_active_folder(m))

\* active_folder_set with the cached field assigned before the remote call
active_folder_set_cache_first(m, value) ==
    set_active_folder(Assign(m, "active_folder", value), value)

active_folder_set(m, value) ==
    Assign(set_active_folder(m, value), "active_folder", value)

\* recursive_query getter, the if/elif/else on the state read; the raise of
\* its else applies % to the exception object, which is a TypeError
recursive_query_cache(m) ==
    IF Raised(m) THEN m
    ELSE IF m.ret.s = "STATE_ENABLED"
         THEN [m EXCEPT !.lb.recursive_query = PyBool(TRUE), !.ret = PyBool(TRUE)]
    ELSE IF m.ret.s = "STATE_DISABLED"
         THEN [m EXCEPT !.lb.recursive_query = PyBool(FALSE), !.ret = PyBool(FALSE)]
    ELSE [m EXCEPT !.err = [type |-> "TypeError", message |-> "unsupported operand"]]

recursive_query_get(m) == recursive_query_cache(get_recursive_query_state(m))

recursive_query_set(m, value) ==
    IF Raised(m) THEN m
    ELSE IF PyEq(value, PyBool(TRUE))
         THEN Assign(set_recursive_query_state(m, "STATE_ENABLED"),
                     "recursive_query", value)
    ELSE IF PyEq(value, PyBool(FALSE))
         THEN Assign(set_recursive_query_state(m, "STATE_DISABLED"),
                     "recursive_query", value)
    ELSE [m EXCEPT !.err = ValueError]

\* transaction_timeout getter, the assignment of the value read
transaction_timeout_cache(m) ==
    IF Raised(m) THEN m ELSE [m EXCEPT !.lb.transaction_timeout = m.ret.i]

transaction_timeout_get(m) == transaction_timeout_cache(get_transaction_timeout(m))

transaction_timeout_set(m, value) ==
    Assign(set_transaction_timeout(m, value), "transaction_timeout", value)

\* Swallow with the test of the message left out
SwallowAny(m, marker) ==
    IF Raised(m) /\ m.err.type = "ServerError"
    THEN [m EXCEPT !.err = NoErr, !.ret = PyNone]
    ELSE m

\* except ServerError as e: if marker in e.message: pass, else: raise
Swallow(m, marker) ==
    IF Raised(m) /\ m.err.type = "ServerError" /\ InMessage(marker, m.err)
    THEN [m EXCEPT !.err = NoErr, !.ret = PyNone]
    ELSE m

\* ensure_transaction without its except clause
ensure_transaction_uncaught(m) == start_transaction(m)

ensure_transaction(m) ==
    IF Raised(m) THEN m ELSE Swallow(start_transaction(m), MsgAlreadyOpen)

\* ensure_no_transaction without its except clause
ensure_no_transaction_uncaught(m) == rollback_transaction(m)

ensure_no_transaction(m) ==
    IF Raised(m) THEN m ELSE Swallow(rollback_transaction(m), MsgNoRollback)

\* active_transaction_started without the rollback of the probe
active_transaction_started_kept(m) ==
    IF Raised(m)
    THEN IF m.err.type = "ServerError" /\ InMessage(MsgAlreadyOpen, m.err)
         THEN [m EXCEPT !.err = NoErr, !.ret = PyBool(TRUE)]
         ELSE m
    ELSE Return(m, PyBool(FALSE))

\* Lb._active_transaction from the return of start_transaction on
active_transaction_started(m) ==
    IF Raised(m)
    THEN IF m.err.type = "ServerError" /\ InMessage(MsgAlreadyOpen, m.err)
         THEN [m EXCEPT !.err = NoErr, !.ret = PyBool(TRUE)]
         ELSE m
    ELSE Return(rollback_transaction(m), PyBool(FALSE))

active_transaction(m) ==
    IF Raised(m) THEN m ELSE active_transaction_started(start_transaction(m))

\* transaction getter, the assignment of the probe's result
transaction_cache(m) ==
    IF Raised(m) THEN m ELSE [m EXCEPT !.lb.transaction = m.ret.b]

transaction_get(m) == transaction_cache(active_transaction(m))

transaction_set(m, value) ==
    IF Raised(m) THEN m
    ELSE IF PyEq(value, PyBool(TRUE))
         THEN Assign(ensure_transaction(m), "transaction", TRUE)
    ELSE IF PyEq(value, PyBool(FALSE))
         THEN Assign(ensure_no_transaction(m), "transaction", FALSE)
    ELSE Return(m, PyNone)

---------------------------------------------------------------------------
(* Wrapped functions.  A body is a sequence of statements; the statements   *)
(* are the ways a wrapped function can touch the session: the property     *)
(* setters, a mutating remote call, raising, and calling a method that is  *)
(* itself wrapped by the transaction decorator.                            *)

Mark(m, event) == [m EXCEPT !.log = Append(@, LogEntry(m, event, "ok", 0))]

\* A statement that calls nothing decorated
PlainStatement(m, a) ==
    IF Raised(m) THEN m
    ELSE CASE a = "cd_part"  -> active_folder_set(m, "/Part")
           [] a = "rq_flip"  ->
                 recursive_query_set(m, PyBool(~ PyEq(m.lb.recursive_query, PyBool(TRUE))))
           [] a = "change"   -> remote_change(m)
           [] a = "raise"    -> [m EXCEPT !.err = BodyError]

\* The statements in order; those after a raise do nothing
RunPlain(m, body) ==
    LET run[k \in 0..Len(body)] ==
            IF k = 0 THEN m ELSE PlainStatement(run[k - 1], body[k])
    IN  run[Len(body)]

\* The wrapped function returns or raises
FuncEnd(m) ==
    IF Raised(m) THEN Mark(m, "body_raise")
    ELSE [Mark(m, "body_end") EXCEPT !.ret = PyStr("func_ret")]

\* func(self, *args, **kwargs) of a function that calls nothing decorated
PlainFunc(m, body) ==
    IF Raised(m) THEN m ELSE FuncEnd(RunPlain(Mark(m, "body_begin"), body))

---------------------------------------------------------------------------
(* The decorators restore_session_values, recursivereader and writer *)

\* restore_session_values.wrapper, the first if after the call of func
restore_active_folder(m, original_folder) ==
    IF Raised(m) THEN m
    ELSE IF m.lb.active_folder # original_folder
         THEN active_folder_set(m, original_folder)
         ELSE m

\* restore_session_values.wrapper, the second if after the call of func
restore_recursive_query(m, original_recursive_query) ==
    IF Raised(m) THEN m
    ELSE IF ~ PyEq(m.lb.recursive_query, original_recursive_query)
         THEN recursive_query_set(m, original_recursive_query)
         ELSE m

\* restore_session_values.wrapper: m is the call on entry, m1 the call when
\* the decorated function has returned or raised.  Nothing catches what the
\* function raises, so the two ifs are passed over then.
restore_session_values(m, m1) ==
    Return(restore_recursive_query(restore_active_folder(m1, m.lb.active_folder),
                                   m.lb.recursive_query),
           m1.ret)

\* recursivereader.wrapper, its first if
force_root_folder(m) ==
    IF Raised(m) THEN m
    ELSE IF m.lb.active_folder # "/" THEN active_folder_set(m, "/") ELSE m

\* force_recursive_query with the comparison inverted
force_recursive_query_inverted(m) ==
    IF Raised(m) THEN m
    ELSE IF PyEq(m.lb.recursive_query, PyBool(TRUE))
         THEN recursive_query_set(m, PyBool(TRUE))
         ELSE m

\* recursivereader.wrapper, its second if
force_recursive_query(m) ==
    IF Raised(m) THEN m
    ELSE IF ~ PyEq(m.lb.recursive_query, PyBool(TRUE))
         THEN recursive_query_set(m, PyBool(TRUE))
         ELSE m

\* recursivereader.wrapper, the function that restore_session_values decorates
recursivereader_wrapper(m, body) ==
    PlainFunc(force_recursive_query(force_root_folder(m)), body)

recursivereader(m, body) == restore_session_values(m, recursivereader_wrapper(m, body))

\* writer.wrapper: the call of func is inside the if, and a call made in
\* another folder falls off the end of the wrapper
writer_wrapper(m, body) ==
    IF m.lb.active_folder = "/"
    THEN PlainFunc(active_folder_set(m, "/Common"), body)
    ELSE Return(m, PyNone)

writer(m, body) == restore_session_values(m, writer_wrapper(m, body))

---------------------------------------------------------------------------
(* The decorator transaction.  frames holds, for each invocation of its    *)
(* wrapper in progress, the local our_transaction and whether the try      *)
(* statement has been reached.                                             *)

Top(m) == m.frames[Len(m.frames)]

Pop(m) == [m EXCEPT !.frames = SubSeq(@, 1, Len(@) - 1)]

\* the wrapper is entered
transaction_frame(m) ==
    [m EXCEPT !.frames = Append(@, [our_transaction |-> FALSE, try |-> FALSE])]

\* our_transaction = not self.transaction
transaction_probe(m) ==
    IF Raised(m) THEN m
    ELSE [m EXCEPT !.frames[Len(m.frames)].our_transaction = ~ m.ret.b]

\* if our_transaction: self.transaction = True
transaction_start(m) ==
    IF Raised(m) THEN m
    ELSE IF Top(m).our_transaction THEN transaction_set(m, PyBool(TRUE)) ELSE m

\* the try statement is reached
transaction_try(m) ==
    IF Raised(m) THEN m
    ELSE [Mark(m, IF Top(m).our_transaction THEN "owner" ELSE "nested")
             EXCEPT !.frames[Len(m.frames)].try = TRUE]

\* transaction.wrapper up to the call of func
transaction_begin(m) ==
    transaction_try(transaction_start(transaction_probe(
        transaction_get(transaction_frame(m)))))

\* transaction_except with the exception raised again after the rollback
transaction_except_reraise(m, our_transaction) ==
    IF ~ Raised(m) THEN m
    ELSE IF our_transaction
         THEN [transaction_set([m EXCEPT !.err = NoErr], PyBool(FALSE))
                  EXCEPT !.err = m.err]
         ELSE m

\* transaction.wrapper, the bare except around the call of func: an owner
\* tries to roll back, and whatever was raised, by func or by the rollback,
\* is dropped.
transaction_except(m, our_transaction) ==
    IF ~ Raised(m) THEN m
    ELSE IF our_transaction
         THEN [transaction_set([m EXCEPT !.err = NoErr], PyBool(FALSE))
                  EXCEPT !.err = NoErr]
         ELSE [m EXCEPT !.err = NoErr]

\* transaction_submit without the test of our_transaction
transaction_submit_always(m, our_transaction) ==
    IF Raised(m) THEN m ELSE submit_transaction(m)

\* transaction.wrapper, the statement after the try: it is reached whether
\* or not func raised.
transaction_submit(m, our_transaction) ==
    IF Raised(m) THEN m
    ELSE IF our_transaction THEN submit_transaction(m) ELSE m

\* transaction.wrapper from the return of func on.  An exception raised
\* before the try leaves the wrapper at once; the wrapper has no return
\* statement.
transaction_end(m) ==
    Pop(IF Top(m).try
        THEN Return(transaction_submit(transaction_except(m, Top(m).our_transaction),
                                       Top(m).our_transaction),
                    PyNone)
        ELSE m)

\* transaction.wrapper around a function that calls nothing decorated
transaction_nested(m, inner) ==
    IF Raised(m) THEN m ELSE transaction_end(PlainFunc(transaction_begin(m), inner))

\* A statement of a function wrapped by transaction
Statement(m, a, inner) ==
    IF a = "inner" THEN transaction_nested(m, inner) ELSE PlainStatement(m, a)

RunBody(m, body, inner) ==
    LET run[k \in 0..Len(body)] ==
            IF k = 0 THEN m ELSE Statement(run[k - 1], body[k], inner)
    IN  run[Len(body)]

\* func(self, *args, **kwargs) of a function wrapped by transaction
Func(m, body, inner) ==
    IF Raised(m) THEN m ELSE FuncEnd(RunBody(Mark(m, "body_begin"), body, inner))

\* transaction.wrapper
transaction_wrapper(m, body, inner) ==
    transaction_end(Func(transaction_begin(m), body, inner))

---------------------------------------------------------------------------
(* The entity caches.  An attribute of the Lb object that holds a dict is a *)
(* record: set tells whether the attribute has been assigned, items is the *)
(* set of <<key, value>> pairs of the dict.                                 *)

NoDict    == [set |-> FALSE, items |-> {}]
EmptyDict == [set |-> TRUE, items |-> {}]

\* key in d
HasKey(d, key) == \E e \in d.items : e[1] = key

\* d[key]
Item(d, key) == (CHOOSE e \in d.items : e[1] = key)[2]

\* d[key] = value
SetItem(d, key, value) ==
    [d EXCEPT !.items = {e \in @ : e[1] # key} \cup {<<key, value>>}]

\* self.<attr>[key] = value; reading an attribute that was never assigned
\* raises AttributeError
cache_put(m, attr, key, value) ==
    IF Raised(m) THEN m
    ELSE IF ~ m.lb[attr].set THEN [m EXCEPT !.err = AttributeError]
    ELSE [m EXCEPT !.lb[attr] = SetItem(@, key, value), !.ret = PyNone]

\* if key in self.<attr>: return self.<attr>[key]
cache_get(m, attr, key) ==
    IF Raised(m) THEN m
    ELSE IF ~ m.lb[attr].set THEN [m EXCEPT !.err = AttributeError]
    ELSE IF HasKey(m.lb[attr], key) THEN Return(m, Item(m.lb[attr], key))
    ELSE Return(m, PyNone)

node_cache_put(m, node) == cache_put(m, "node_cache", node.name, node)
node_cache_get(m, name) == cache_get(m, "node_cache", name)

pool_cache_put(m, pool) == cache_put(m, "pool_cache", pool.name, pool)
pool_cache_get(m, name) == cache_get(m, "pool_cache", name)

vs_cache_put(m, vs) == cache_put(m, "vs_cache", vs.name, vs)
vs_cache_get(m, name) == cache_get(m, "vs_cache", name)

rule_cache_put(m, rule) == cache_put(m, "rule_cache", rule.name, rule)
rule_cache_get(m, name) == cache_get(m, "rule_cache", name)

\* '%s' % d for a digit d
Digit(d) == SubSeq("0123456789", d + 1, d + 1)

\* '%s' % n for an integer n >= 0: its decimal digits
Str(n) ==
    LET dec[k \in 0..n] == IF k < 10 THEN Digit(k) ELSE dec[k \div 10] \o Digit(k % 10)
    IN  dec[n]

\* '%s%s%s' % (node_name, port, pool_name)
pm_cache_key(node_name, port, pool_name) == node_name \o Str(port) \o pool_name

pm_cache_get(m, node_name, port, pool_name) ==
    cache_get(m, "pm_cache", pm_cache_key(node_name, port, pool_name))

pm_cache_put(m, pm) ==
    cache_put(m, "pm_cache", pm_cache_key(pm.node.name, pm.port, pm.pool.name), pm)

\* The entity caches of the session are assigned empty mappings.  No
\* statement of lb.py assigns them.
caches_assigned(m) ==
    [m EXCEPT !.lb.node_cache = EmptyDict, !.lb.pool_cache = EmptyDict,
              !.lb.pm_cache = EmptyDict, !.lb.vs_cache = EmptyDict,
              !.lb.rule_cache = EmptyDict]

---------------------------------------------------------------------------
(* Lb.__init__ *)

VersionMarker == "BIG-IP_v11"

\* The fields of an Lb object that __init__ has not assigned yet
NoLb == [versioncheck |-> FALSE, active_folder |-> "", recursive_query |-> PyNone,
         transaction |-> FALSE, transaction_timeout |-> 0,
         node_cache |-> NoDict, pool_cache |-> NoDict, pm_cache |-> NoDict,
         vs_cache |-> NoDict, rule_cache |-> NoDict]

\* version_check without the test of versioncheck
version_check_always(m, versioncheck) ==
    IF Raised(m) THEN m
    ELSE IF ~ In(VersionMarker, m.ret.s) THEN [m EXCEPT !.err = UnsupportedF5Version]
    ELSE m

\* if versioncheck and not 'BIG-IP_v11' in version: raise
version_check(m, versioncheck) ==
    IF Raised(m) THEN m
    ELSE IF versioncheck /\ ~ In(VersionMarker, m.ret.s)
         THEN [m EXCEPT !.err = UnsupportedF5Version]
    ELSE m

\* self._recursive_query = <the value the getter returned>
recursive_query_store(m) ==
    IF Raised(m) THEN m ELSE [m EXCEPT !.lb.recursive_query = m.ret]

\* init_session_values with the folder written instead of read
init_session_values_written(m) ==
    transaction_timeout_cache(transaction_timeout_get(
        transaction_cache(transaction_get(
            recursive_query_store(recursive_query_get(
                active_folder_set(m, "/Common")))))))

\* self._active_folder = self.active_folder, and the three assignments
\* after it: each getter caches what it read and the assignment stores the
\* value the getter returned
init_session_values(m) ==
    transaction_timeout_cache(transaction_timeout_get(
        transaction_cache(transaction_get(
            recursive_query_store(recursive_query_get(
                active_folder_cache(active_folder_get(m))))))))

Lb_init(m, versioncheck, version) ==
    init_session_values(
        version_check(get_version([m EXCEPT !.lb.versioncheck = versioncheck], version),
                      versioncheck))

---------------------------------------------------------------------------
(* The state machine *)

RQStates == {"STATE_ENABLED", "STATE_DISABLED"}

RQOf(state) == PyBool(state = "STATE_ENABLED")

\* Values a caller passes to the recursive_query and transaction setters
SetterValues == {PyBool(TRUE), PyBool(FALSE), PyInt(1), PyStr("on")}

SessionAtoms == {"cd_part", "rq_flip", "raise"}
TxAtoms      == {"change", "raise", "inner"}
InnerBodies  == {<<>>, <<"change">>, <<"raise">>, <<"change", "raise">>}

\* A property or submit_transaction issues at most two remote calls (the
\* probe: start_transaction, rollback_transaction).
FaultPoints == 0..2

\* A scoped call issues at most two forcing calls, one call per statement of
\* the body and two restoring calls.
ScopedFaultPoints == 0..(MaxBody + 4)

\* A transaction call issues the probe (two calls), the start, the calls of
\* the body, the rollback and the submit.
TxFaultPoints == 0..(MaxBody + 5)

SeqsUpTo(S, k) == UNION {[1..j -> S] : j \in 0..k}

Count(body, a) == Cardinality({j \in DOMAIN body : body[j] = a})

\* Changes a transaction call makes: the inner body runs once per "inner"
Changes(body, inner) == Count(body, "change") + Count(body, "inner") * Count(inner, "change")

\* The session as Lb.__init__ leaves it: each cached field read from the
\* appliance, the probe of the transaction state rolled back, and none of
\* the entity caches assigned.
Init ==
    /\ \E f \in ExistingFolders, q \in RQStates, t \in 0..1, s \in 0..1,
          o \in Timeouts :
          /\ s <= t
          /\ remote = [folder |-> f, rq |-> q, tx |-> t, staged |-> s,
                       timeout |-> o]
          /\ lb = [NoLb EXCEPT !.versioncheck = TRUE, !.active_folder = f,
                                !.recursive_query = RQOf(q), !.transaction = (t > 0),
                                !.transaction_timeout = o]
    /\ log = <<>>
    /\ err = NoErr
    /\ ret = PyNone
    /\ op = [name |-> "__init__", arg |-> PyNone, body |-> <<>>, inner |-> <<>>]
    /\ entry = [remote |-> remote, lb |-> lb, again |-> FALSE]

Enter(fa) == [remote |-> remote, lb |-> lb, log |-> <<>>, err |-> NoErr,
              ret |-> PyNone, n |-> 0, faultAt |-> fa, frames |-> <<>>]

\* The public call returns or raises
Leave(m) ==
    /\ remote' = m.remote
    /\ lb' = m.lb
    /\ log' = m.log
    /\ err' = m.err
    /\ ret' = IF Raised(m) THEN PyNone ELSE m.ret

Called(name, arg, body, inner) ==
    [name |-> name, arg |-> arg, body |-> body, inner |-> inner]

\* again: the call is a setter called with the value it was just called
\* with, that call having completed
Entered(name, arg) ==
    [remote |-> remote, lb |-> lb,
     again |-> (arg # PyNone /\ op.name = name /\ op.arg = arg /\ err = NoErr)]

ActiveFolderGet ==
    \E fa \in FaultPoints :
        /\ Leave(active_folder_get(Enter(fa)))
        /\ op' = Called("active_folder.get", PyNone, <<>>, <<>>)
        /\ entry' = Entered("active_folder.get", PyNone)

ActiveFolderSet ==
    \E fa \in FaultPoints, p \in Paths :
        /\ Leave(active_folder_set(Enter(fa), p))
        /\ op' = Called("active_folder.set", PyStr(p), <<>>, <<>>)
        /\ entry' = Entered("active_folder.set", PyStr(p))

RecursiveQueryGet ==
    \E fa \in FaultPoints :
        /\ Leave(recursive_query_get(Enter(fa)))
        /\ op' = Called("recursive_query.get", PyNone, <<>>, <<>>)
        /\ entry' = Entered("recursive_query.get", PyNone)

RecursiveQuerySet ==
    \E fa \in FaultPoints, v \in SetterValues :
        /\ Leave(recursive_query_set(Enter(fa), v))
        /\ op' = Called("recursive_query.set", v, <<>>, <<>>)
        /\ entry' = Entered("recursive_query.set", v)

TransactionGet ==
    \E fa \in FaultPoints :
        /\ Leave(transaction_get(Enter(fa)))
        /\ op' = Called("transaction.get", PyNone, <<>>, <<>>)
        /\ entry' = Entered("transaction.get", PyNone)

TransactionSet ==
    \E fa \in FaultPoints, v \in SetterValues :
        /\ Leave(transaction_set(Enter(fa), v))
        /\ op' = Called("transaction.set", v, <<>>, <<>>)
        /\ entry' = Entered("transaction.set", v)

TransactionTimeoutGet ==
    \E fa \in FaultPoints :
        /\ Leave(transaction_timeout_get(Enter(fa)))
        /\ op' = Called("transaction_timeout.get", PyNone, <<>>, <<>>)
        /\ entry' = Entered("transaction_timeout.get", PyNone)

TransactionTimeoutSet ==
    \E fa \in FaultPoints, t \in Timeouts :
        /\ Leave(transaction_timeout_set(Enter(fa), t))
        /\ op' = Called("transaction_timeout.set", PyInt(t), <<>>, <<>>)
        /\ entry' = Entered("transaction_timeout.set", PyInt(t))

\* Lb.submit_transaction
SubmitTransaction ==
    \E fa \in FaultPoints :
        /\ Leave(submit_transaction(Enter(fa)))
        /\ op' = Called("submit_transaction", PyNone, <<>>, <<>>)
        /\ entry' = Entered("submit_transaction", PyNone)

\* pools_get, pms_get, nodes_get, rules_get, vss_get, pools_get_vs
RecursiveReaderCall ==
    \E fa \in ScopedFaultPoints, body \in SeqsUpTo(SessionAtoms, MaxBody) :
        /\ Leave(recursivereader(Enter(fa), body))
        /\ op' = Called("recursivereader", PyNone, body, <<>>)
        /\ entry' = Entered("recursivereader", PyNone)

\* a method decorated with writer
WriterCall ==
    \E fa \in ScopedFaultPoints, body \in SeqsUpTo(SessionAtoms, MaxBody) :
        /\ Leave(writer(Enter(fa), body))
        /\ op' = Called("writer", PyNone, body, <<>>)
        /\ entry' = Entered("writer", PyNone)

\* the wrapper of transaction around a method
TransactionCall ==
    \E fa \in TxFaultPoints, body \in SeqsUpTo(TxAtoms, MaxBody) :
      \E inner \in IF Count(body, "inner") = 0 THEN {<<>>} ELSE InnerBodies :
        /\ Count(body, "inner") <= 1
        /\ remote.staged + Changes(body, inner) <= MaxChanges
        /\ Leave(transaction_wrapper(Enter(fa), body, inner))
        /\ op' = Called("transaction", PyNone, body, inner)
        /\ entry' = Entered("transaction", PyNone)

\* What an appliance reports as its version
Versions == {"BIG-IP_v11.4.1", "BIG-IP_v10.2.4", "BIG-IP_v12.0.0", "BIG-IQ_v11"}

\* __init__ issues get_version, two reads, the probe (two calls) and a read
ConstructFaultPoints == 0..6

\* No Lb object yet: the remote session is in any state
InitConstruct ==
    /\ \E f \in ExistingFolders, q \in RQStates, t \in 0..1, s \in 0..1,
          o \in Timeouts :
          /\ s <= t
          /\ remote = [folder |-> f, rq |-> q, tx |-> t, staged |-> s,
                       timeout |-> o]
    /\ lb = NoLb
    /\ log = <<>>
    /\ err = NoErr
    /\ ret = PyNone
    /\ op = [name |-> "none", arg |-> PyNone, body |-> <<>>, inner |-> <<>>]
    /\ entry = [remote |-> remote, lb |-> lb, again |-> FALSE]

\* Lb(host, username, password, versioncheck)
Construct ==
    \E fa \in ConstructFaultPoints, versioncheck \in BOOLEAN, version \in Versions :
        /\ op.name = "none"
        /\ Leave(Lb_init(Enter(fa), versioncheck, version))
        /\ op' = Called("__init__", PyStr(version), <<>>, <<>>)
        /\ entry' = Entered("__init__", PyStr(version))

NextConstruct == Construct

SpecConstruct == InitConstruct /\ [][NextConstruct]_vars

\* The entities the collaborators hand to the caches: objects with a name,
\* id telling two objects of the same name apart
Names    == {"a", "b"}
Ids      == {1, 2}
Entities == [name : Names, id : Ids]

\* Pool members: a node, a port and a pool
NodeNames   == {"n", "n1"}
Ports       == {1, 11}
PoolNames   == {"p"}
PoolMembers == [node : [name : NodeNames], port : Ports, pool : [name : PoolNames],
                id : Ids]
Triples     == [node_name : NodeNames, port : Ports, pool_name : PoolNames]

CacheAttrs == {"node_cache", "pool_cache", "pm_cache", "vs_cache", "rule_cache"}

Total(f, S) ==
    LET sum[T \in SUBSET S] ==
            IF T = {} THEN 0
            ELSE LET x == CHOOSE y \in T : TRUE IN f[x] + sum[T \ {x}]
    IN  sum[S]

Entries == Total([a \in CacheAttrs |-> Cardinality(lb[a].items)], CacheAttrs)

\* The put adds no entry, or there is room for one
Room(attr, key) == HasKey(lb[attr], key) \/ Entries < MaxEntries

CachesAssigned ==
    /\ ~ lb.node_cache.set
    /\ Leave(caches_assigned(Enter(0)))
    /\ op' = Called("caches_assigned", PyNone, <<>>, <<>>)
    /\ entry' = Entered("caches_assigned", PyNone)

NodeCachePut ==
    \E node \in Entities :
        /\ Room("node_cache", node.name)
        /\ Leave(node_cache_put(Enter(0), node))
        /\ op' = Called("node_cache_put", node, <<>>, <<>>)
        /\ entry' = Entered("node_cache_put", node)

NodeCacheGet ==
    \E name \in Names :
        /\ Leave(node_cache_get(Enter(0), name))
        /\ op' = Called("node_cache_get", PyStr(name), <<>>, <<>>)
        /\ entry' = Entered("node_cache_get", PyStr(name))

PoolCachePut ==
    \E pool \in Entities :
        /\ Room("pool_cache", pool.name)
        /\ Leave(pool_cache_put(Enter(0), pool))
        /\ op' = Called("pool_cache_put", pool, <<>>, <<>>)
        /\ entry' = Entered("pool_cache_put", pool)

PoolCacheGet ==
    \E name \in Names :
        /\ Leave(pool_cache_get(Enter(0), name))
        /\ op' = Called("pool_cache_get", PyStr(name), <<>>, <<>>)
        /\ entry' = Entered("pool_cache_get", PyStr(name))

VsCachePut ==
    \E vs \in Entities :
        /\ Room("vs_cache", vs.name)
        /\ Leave(vs_cache_put(Enter(0), vs))
        /\ op' = Called("vs_cache_put", vs, <<>>, <<>>)
        /\ entry' = Entered("vs_cache_put", vs)

VsCacheGet ==
    \E name \in Names :
        /\ Leave(vs_cache_get(Enter(0), name))
        /\ op' = Called("vs_cache_get", PyStr(name), <<>>, <<>>)
        /\ entry' = Entered("vs_cache_get", PyStr(name))

RuleCachePut ==
    \E rule \in Entities :
        /\ Room("rule_cache", rule.name)
        /\ Leave(rule_cache_put(Enter(0), rule))
        /\ op' = Called("rule_cache_put", rule, <<>>, <<>>)
        /\ entry' = Entered("rule_cache_put", rule)

RuleCacheGet ==
    \E name \in Names :
        /\ Leave(rule_cache_get(Enter(0), name))
        /\ op' = Called("rule_cache_get", PyStr(name), <<>>, <<>>)
        /\ entry' = Entered("rule_cache_get", PyStr(name))

PmCachePut ==
    \E pm \in PoolMembers :
        /\ Room("pm_cache", pm_cache_key(pm.node.name, pm.port, pm.pool.name))
        /\ Leave(pm_cache_put(Enter(0), pm))
        /\ op' = Called("pm_cache_put", pm, <<>>, <<>>)
        /\ entry' = Entered("pm_cache_put", pm)

PmCacheGet ==
    \E t \in Triples :
        /\ Leave(pm_cache_get(Enter(0), t.node_name, t.port, t.pool_name))
        /\ op' = Called("pm_cache_get", t, <<>>, <<>>)
        /\ entry' = Entered("pm_cache_get", t)

\* The cache methods, called by the entity collaborators
NextCache ==
    \/ CachesAssigned
    \/ NodeCachePut
    \/ NodeCacheGet
    \/ PoolCachePut
    \/ PoolCacheGet
    \/ VsCachePut
    \/ VsCacheGet
    \/ RuleCachePut
    \/ RuleCacheGet
    \/ PmCachePut
    \/ PmCacheGet

\* constructed on a fresh remote session
InitCache ==
    /\ Init
    /\ remote = [folder |-> "/Common", rq |-> "STATE_DISABLED", tx |-> 0, staged |-> 0,
                 timeout |-> 30]

SpecCache == InitCache /\ [][NextCache]_vars

\* Every call on a constructed session
Next ==
    \/ ActiveFolderGet
    \/ ActiveFolderSet
    \/ RecursiveQueryGet
    \/ RecursiveQuerySet
    \/ TransactionGet
    \/ TransactionSet
    \/ TransactionTimeoutGet
    \/ TransactionTimeoutSet
    \/ SubmitTransaction
    \/ RecursiveReaderCall
    \/ WriterCall
    \/ TransactionCall
    \/ NextCache

Spec == Init /\ [][Next]_vars

\* The session properties and submit_transaction alone
NextSession ==
    \/ ActiveFolderGet
    \/ ActiveFolderSet
    \/ RecursiveQueryGet
    \/ RecursiveQuerySet
    \/ TransactionGet
    \/ TransactionSet
    \/ TransactionTimeoutGet
    \/ TransactionTimeoutSet
    \/ SubmitTransaction

SpecSession == Init /\ [][NextSession]_vars

\* The methods decorated with recursivereader or writer, called by a client
\* that also sets folder and recursion itself
NextScoped ==
    \/ ActiveFolderSet
    \/ RecursiveQuerySet
    \/ RecursiveReaderCall
    \/ WriterCall

\* constructed while no transaction was open
InitScoped == Init /\ remote.tx = 0 /\ remote.timeout = 30

SpecScoped == InitScoped /\ [][NextScoped]_vars

\* The methods wrapped by transaction, called by a client that also opens,
\* rolls back and submits transactions itself
NextTransaction ==
    \/ TransactionSet
    \/ SubmitTransaction
    \/ TransactionCall

\* constructed in the folder and recursion state of a fresh remote session
InitTransaction ==
    Init /\ remote.folder = "/Common" /\ remote.rq = "STATE_DISABLED" /\ remote.timeout = 30

SpecTransaction == InitTransaction /\ [][NextTransaction]_vars

TypeOK ==
    /\ remote.folder \in ExistingFolders
    /\ remote.rq \in RQStates
    /\ remote.tx \in 0..1
    /\ remote.staged \in 0..MaxChanges

---------------------------------------------------------------------------
(* Reading the log *)

Events(call)   == {i \in DOMAIN log : log[i].call = call}
BodyRaised     == Events("body_raise") # {}
Faultless      == \A i \in DOMAIN log : log[i].res = "ok"
NoTransportFault == \A i \in DOMAIN log : log[i].res # MsgTransport
RemoteCalls    == [i \in DOMAIN log |-> <<log[i].call, log[i].res>>]

\* The fault of remote call i is one of the two idempotency faults.
IdempotencyFault(i) ==
    \/ log[i].call = "start_transaction" /\ log[i].res = MsgAlreadyOpen
    \/ log[i].call = "rollback_transaction" /\ log[i].res = MsgNoRollback

---------------------------------------------------------------------------
(* Claims *)

\* C1: when a recursivereader-scoped call exits, the remote active folder
\* and the remote recursive-query state are those of its entry, whether the
\* body returned or raised (stated for the calls whose remote calls all
\* succeed).
C1_RestoredOnExit ==
    (op.name = "recursivereader" /\ Faultless)
        => /\ remote.folder = entry.remote.folder
           /\ remote.rq = entry.remote.rq

\* C2: a writer-scoped call runs the wrapped function exactly once and
\* returns its result; the function runs in /Common when the folder on entry
\* is /, and in the folder of entry otherwise (stated for the calls whose
\* remote calls all succeed).
C2_WriterRunsBodyOnce ==
    (op.name = "writer" /\ Faultless)
        => /\ Cardinality(Events("body_begin")) = 1
           /\ \A i \in Events("body_begin") :
                  log[i].folder = IF entry.remote.folder = "/" THEN "/Common"
                                  ELSE entry.remote.folder
           /\ (err = NoErr => ret = PyStr("func_ret"))

\* C3: when the body of a transaction-scoped call that owns the transaction
\* raises, that invocation issues no submit_transaction afterwards and the
\* transaction ends closed (stated for the calls no transport fault hits).
C3_NoSubmitAfterRaise ==
    (op.name = "transaction" /\ NoTransportFault)
        => \A i \in Events("body_raise"), o \in Events("owner") :
               (log[i].depth = 1 /\ log[o].depth = 1)
                   => /\ remote.tx = 0
                      /\ \A j \in Events("submit_transaction") :
                             ~ (j > i /\ log[j].depth = 1)

\* C4: an owning transaction-scoped call whose body calls another
\* transaction-scoped method, both bodies returning, issues exactly one
\* submit_transaction, itself, after both bodies have returned; the nested
\* call starts no transaction that takes effect and issues neither a
\* rollback nor a submit.
NestedBothReturn ==
    /\ op.name = "transaction"
    /\ ~ BodyRaised
    /\ \E o \in Events("owner") : log[o].depth = 1
    /\ \E i \in Events("body_end") : log[i].depth = 1
    /\ \E i \in Events("body_end") : log[i].depth = 2

C5_ErrorAfterRestore ==
    (op.name \in {"recursivereader", "writer"} /\ BodyRaised /\ Faultless)
        => /\ err = BodyError
           /\ remote.folder = entry.remote.folder
           /\ remote.rq = entry.remote.rq

\* C6: whenever the body of a recursivereader-scoped call starts, the remote
\* active folder is / and the remote recursive-query state is enabled.
C6_ForcedAtBodyStart ==
    op.name = "recursivereader"
        => \A i \in Events("body_begin") :
               log[i].folder = "/" /\ log[i].rq = "STATE_ENABLED"

C6_Witness ==
    /\ op.name = "recursivereader"
    /\ entry.remote.folder = "/Common"
    /\ entry.remote.rq = "STATE_DISABLED"
    /\ Events("body_begin") # {}

\* C7: reading the transaction property, no transport fault occurring,
\* returns True exactly when a transaction was open on entry and leaves the
\* remote state as on entry: an open transaction is only met by a refused
\* start, a closed one by a start followed at once by a rollback.
C7_ProbeFrame ==
    (op.name = "transaction.get" /\ NoTransportFault)
        => /\ err = NoErr
           /\ ret = PyBool(entry.remote.tx > 0)
           /\ remote = entry.remote
           /\ RemoteCalls = IF entry.remote.tx > 0
                            THEN << <<"start_transaction", MsgAlreadyOpen>> >>
                            ELSE << <<"start_transaction", "ok">>,
                                    <<"rollback_transaction", "ok">> >>

C7_Witness ==
    /\ op.name = "transaction.get"
    /\ entry.remote.tx = 1
    /\ entry.remote.staged = 1
    /\ ret = PyBool(TRUE)
    /\ remote.staged = 1

\* C8: transaction = True, no transport fault occurring, raises nothing and
\* ends with one transaction open, from a closed state and from an open one
\* (whose staged changes are kept), also when it repeats the same call; and
\* never is more than one transaction open.
C8_OpenIdempotent ==
    /\ remote.tx <= 1
    /\ (op.name = "transaction.set" /\ PyEq(op.arg, PyBool(TRUE)) /\ NoTransportFault)
           => /\ err = NoErr
              /\ remote.tx = 1
              /\ lb.transaction = TRUE
              /\ Cardinality(Events("start_transaction")) = 1
              /\ (entry.remote.tx = 1 => remote = entry.remote)

C8_Witness ==
    /\ op.name = "transaction.set"
    /\ op.arg = PyBool(TRUE)
    /\ entry.again
    /\ entry.remote.tx = 1
    /\ err = NoErr
    /\ remote.tx = 1

\* C9: transaction = False, no transport fault occurring, raises nothing and
\* ends closed: an open transaction is rolled back, and with none open the
\* refused rollback is swallowed.
C9_CloseIdempotent ==
    (op.name = "transaction.set" /\ PyEq(op.arg, PyBool(FALSE)) /\ NoTransportFault)
        => /\ err = NoErr
           /\ remote.tx = 0
           /\ remote.staged = 0
           /\ lb.transaction = FALSE
           /\ RemoteCalls = << <<"rollback_transaction",
                                 IF entry.remote.tx > 0 THEN "ok" ELSE MsgNoRollback>> >>

C9_Witness ==
    /\ op.name = "transaction.set"
    /\ op.arg = PyBool(FALSE)
    /\ entry.remote.tx = 0
    /\ entry.again
    /\ err = NoErr
    /\ remote.tx = 0

\* C10: in the session properties and submit_transaction, a remote fault
\* that is swallowed is "already open" on a start or "nothing to roll back"
\* on a rollback; any other fault ends the call, reaches the caller with its
\* message, and the faulted remote call is not issued again.
SessionOps ==
    {"active_folder.get", "active_folder.set", "recursive_query.get",
     "recursive_query.set", "transaction.get", "transaction.set",
     "transaction_timeout.get", "transaction_timeout.set", "submit_transaction"}

C10_OnlyIdempotencyFaultsSwallowed ==
    op.name \in SessionOps
        => \A i \in DOMAIN log :
               log[i].res # "ok"
                   => /\ \A j \in DOMAIN log : j > i => log[j].call # log[i].call
                      /\ \/ IdempotencyFault(i) /\ (i = Len(log) => err = NoErr)
                         \/ i = Len(log) /\ err = ServerError(log[i].res)

C10_Witness ==
    /\ op.name = "transaction.set"
    /\ op.arg = PyBool(FALSE)
    /\ RemoteCalls = << <<"rollback_transaction", MsgTransport>> >>
    /\ err = ServerError(MsgTransport)

\* C11: recursive_query = True (False) sets the remote state to enabled
\* (disabled) and the cached flag to the value, and reading recursive_query
\* returns the flag of the remote state; recursive_query = v for a v that is
\* neither True nor False raises ValueError, issues no remote call and
\* leaves the remote state and the cached flag as they were.
C11_SetterRoundTrip ==
    /\ (op.name = "recursive_query.set" /\ op.arg.t = "bool" /\ Faultless)
           => /\ err = NoErr
              /\ remote.rq = (IF op.arg.b THEN "STATE_ENABLED" ELSE "STATE_DISABLED")
              /\ lb.recursive_query = op.arg
    /\ (op.name = "recursive_query.get" /\ Faultless)
           => /\ err = NoErr
              /\ ret = RQOf(entry.remote.rq)
              /\ remote = entry.remote
    /\ (op.name = "recursive_query.set" /\ op.arg.t # "bool")
           => /\ err = ValueError
              /\ log = <<>>
              /\ remote = entry.remote
              /\ lb = entry.lb

\* C12: active_folder = p for a path the appliance accepts leaves the remote
\* folder and the cached folder at p, and reading active_folder returns the
\* remote folder and caches it, so that the cached folder is the remote one
\* after every call; when the appliance refuses p (or the call faults) the
\* fault reaches the caller and the remote and the cached folder stay as
\* they were.
C12_FolderRoundTrip ==
    /\ lb.active_folder = remote.folder
    /\ (op.name = "active_folder.set" /\ Faultless)
           => /\ err = NoErr
              /\ remote.folder = op.arg.s
              /\ lb.active_folder = op.arg.s
    /\ (op.name = "active_folder.get" /\ Faultless)
           => /\ err = NoErr
              /\ ret = PyStr(entry.remote.folder)
              /\ lb.active_folder = entry.remote.folder
              /\ remote = entry.remote
    /\ (op.name = "active_folder.set" /\ ~ Faultless)
           => /\ err = ServerError(log[Len(log)].res)
              /\ remote = entry.remote
              /\ lb = entry.lb

C12_Witness ==
    /\ op.name = "active_folder.set"
    /\ op.arg = PyStr("/Missing")
    /\ err = ServerError(MsgNoFolder)
    /\ entry.remote.folder = "/Part"
    /\ lb.active_folder = "/Part"

\* C13: constructing a session raises UnsupportedF5Version exactly when
\* get_version returned, version checking is enabled and the version
\* reported does not contain 'BIG-IP_v11'; with version checking disabled
\* it is never raised; and when it is raised, get_version is the only
\* remote call that was issued.
C13_VersionCheck ==
    (op.name = "__init__" /\ log # <<>>)
        => /\ (err = UnsupportedF5Version)
                  <=> /\ log[1].res = "ok"
                      /\ lb.versioncheck
                      /\ op.arg.s \notin {"BIG-IP_v11.4.1"}
           /\ (~ lb.versioncheck => err.type # "UnsupportedF5Version")
           /\ (err = UnsupportedF5Version => RemoteCalls = << <<"get_version", "ok">> >>)

C13_Witness ==
    /\ op.name = "__init__"
    /\ lb.versioncheck
    /\ op.arg = PyStr("BIG-IQ_v11")
    /\ err = UnsupportedF5Version
    /\ Len(log) = 1

\* C18: a construction that completes leaves the remote session as it was:
\* folder, recursion and timeout are only read, an open transaction is met
\* by a refused start and stays open with what it has staged, a closed one
\* is started and rolled back; and each cached field equals the remote
\* value.
C18_ConstructFrame ==
    (op.name = "__init__" /\ log # <<>> /\ err = NoErr)
        => /\ remote = entry.remote
           /\ lb.active_folder = remote.folder
           /\ lb.recursive_query = RQOf(remote.rq)
           /\ lb.transaction = (remote.tx > 0)
           /\ lb.transaction_timeout = remote.timeout
           /\ RemoteCalls =
                  << <<"get_version", "ok">>, <<"get_active_folder", "ok">>,
                     <<"get_recursive_query_state", "ok">> >>
                  \o (IF entry.remote.tx > 0
                      THEN << <<"start_transaction", MsgAlreadyOpen>> >>
                      ELSE << <<"start_transaction", "ok">>,
                              <<"rollback_transaction", "ok">> >>)
                  \o << <<"get_transaction_timeout", "ok">> >>

C18_Witness ==
    /\ op.name = "__init__"
    /\ err = NoErr
    /\ ~ lb.versioncheck
    /\ op.arg = PyStr("BIG-IP_v10.2.4")
    /\ entry.remote.tx = 1
    /\ entry.remote.staged = 1
    /\ remote.staged = 1
    /\ lb.transaction

\* C15: when the body of a transaction-scoped call made inside another
\* transaction-scoped call raises, no submit_transaction issued afterwards
\* makes staged changes permanent (stated for the calls no transport fault
\* hits).
C15_AtomicAcrossNesting ==
    (op.name = "transaction" /\ NoTransportFault)
        => \A i \in Events("body_raise") :
               log[i].depth = 2
                   => \A j \in Events("submit_transaction") :
                          j > i => log[j].applied = 0

\* C16: when the body of a transaction-scoped call has raised, the caller
\* does not get that error, and does not get a fault of the rollback of the
\* error handling either: the call returns, unless the submit_transaction
\* that follows faults.
C16_BodyErrorDropped ==
    (op.name = "transaction" /\ BodyRaised)
        => /\ err # BodyError
           /\ err # NoErr
                  => /\ log[Len(log)].call = "submit_transaction"
                     /\ err = ServerError(log[Len(log)].res)
           /\ \A j \in Events("rollback_transaction") :
                  (log[j].res # "ok" /\ \E i \in Events("body_raise") : i < j)
                      => j < Len(log) /\ err = NoErr

C16_Witness ==
    /\ op.name = "transaction"
    /\ op.body = <<"change", "raise">>
    /\ \E j \in Events("rollback_transaction") :
           /\ log[j].res = MsgTransport
           /\ \E i \in Events("body_raise") : i < j
    /\ err = NoErr

\* C17: when a recursivereader-scoped call has written the folder to / and
\* the write of the recursive-query state that follows faults, the call
\* ends with the fault and with the remote folder and recursion state of
\* its entry.
C17_RestoredWhenForcingFails ==
    (/\ op.name = "recursivereader"
     /\ Len(log) >= 2
     /\ log[1].call = "set_active_folder" /\ log[1].res = "ok"
     /\ log[2].call = "set_recursive_query_state" /\ log[2].res # "ok")
        => /\ err = ServerError(log[2].res)
           /\ remote.folder = entry.remote.folder
           /\ remote.rq = entry.remote.rq

\* C19: after a transaction operation that completed (transaction = True,
\* transaction = False, reading transaction, submit_transaction(), a
\* transaction-scoped call), the cached transaction flag is True exactly
\* when a remote transaction is open.
C19_CachedTransactionFlag ==
    (/\ op.name \in {"transaction.set", "transaction.get", "submit_transaction",
                     "transaction"}
     /\ err = NoErr)
        => lb.transaction = (remote.tx > 0)

\* C14: in a constructed session, for each of the five entity caches: a put
\* completes, stores the entity under its key, replaces what was stored
\* under that key and nothing else, and leaves the other caches alone; a
\* get completes, changes nothing and returns the entity stored under the
\* key, or None when there is none; and no call removes a key.  (By
\* induction a get returns the entity most recently put under its key.)
PutOps == {"node_cache_put", "pool_cache_put", "vs_cache_put", "rule_cache_put",
           "pm_cache_put"}
GetOps == {"node_cache_get", "pool_cache_get", "vs_cache_get", "rule_cache_get",
           "pm_cache_get"}

AttrOfOp ==
    CASE op.name \in {"node_cache_put", "node_cache_get"} -> "node_cache"
      [] op.name \in {"pool_cache_put", "pool_cache_get"} -> "pool_cache"
      [] op.name \in {"vs_cache_put", "vs_cache_get"}     -> "vs_cache"
      [] op.name \in {"rule_cache_put", "rule_cache_get"} -> "rule_cache"
      [] op.name \in {"pm_cache_put", "pm_cache_get"}     -> "pm_cache"

KeyOfOp ==
    CASE op.name = "pm_cache_put" ->
             op.arg.node.name \o Str(op.arg.port) \o op.arg.pool.name
      [] op.name = "pm_cache_get" ->
             op.arg.node_name \o Str(op.arg.port) \o op.arg.pool_name
      [] op.name \in PutOps \ {"pm_cache_put"} -> op.arg.name
      [] op.name \in GetOps \ {"pm_cache_get"} -> op.arg.s

C14_CachePutGet ==
    /\ op.name \in PutOps
           => /\ err = NoErr
              /\ lb[AttrOfOp].items =
                     {e \in entry.lb[AttrOfOp].items : e[1] # KeyOfOp}
                         \cup {<<KeyOfOp, op.arg>>}
              /\ \A a \in CacheAttrs \ {AttrOfOp} : lb[a] = entry.lb[a]
    /\ op.name \in GetOps
           => /\ err = NoErr
              /\ lb = entry.lb
              /\ \A e \in lb[AttrOfOp].items : e[1] = KeyOfOp => ret = e[2]
              /\ (\A e \in lb[AttrOfOp].items : e[1] # KeyOfOp) => ret = PyNone
    /\ \A a \in CacheAttrs :
           /\ \A e \in entry.lb[a].items : \E f \in lb[a].items : f[1] = e[1]
           /\ \A e, f \in lb[a].items : e[1] = f[1] => e = f

\* C20: a put of a pool member keeps every entry that was stored for
\* another (node name, port, pool name) triple, and a get for a triple
\* returns None or a pool member of that triple.
TripleOf(pm) == [node_name |-> pm.node.name, port |-> pm.port, pool_name |-> pm.pool.name]

C20_PoolMembersKeptApart ==
    /\ (op.name = "pm_cache_put" /\ err = NoErr)
           => \A e \in entry.lb.pm_cache.items :
                  TripleOf(e[2]) # TripleOf(op.arg) => e \in lb.pm_cache.items
    /\ (op.name = "pm_cache_get" /\ err = NoErr /\ ret # PyNone)
           => TripleOf(ret) = op.arg

====
